---- MODULE Spec2Model ----
(***************************************************************************)
(* Build job pipeline of despia-cloud-builder.                             *)
(*                                                                         *)
(* The repository holds three programs that run one build job each:        *)
(*   "workflow" : the Codemagic workflow of README.md (scripts 1, 2 and    *)
(*                the publishing script, with send_callback)               *)
(*   "api"      : the Express handler app.post("/build") of api/index.js   *)
(*   "scripts"  : the detect script and the build script of                *)
(*                build_deploy.sh                                          *)
(* A behaviour of the model is one job run by one of the three programs.   *)
(* Strings that the programs inspect by suffix or by substring are         *)
(* sequences of tokens, so that endsWith and *".git"* are computed.        *)
(***************************************************************************)
EXTENDS Integers, Sequences, FiniteSets, TLC

(***************************************************************************)
(* Inputs                                                                  *)
(***************************************************************************)
Modes == {"workflow", "api", "scripts"}

\* source_url / CLIENT_ASSEST_URL values, as token sequences
Urls ==
  { <<>>,
    <<"https://x/repo", ".git">>,
    <<"https://x/a", ".zip">>,
    <<"https://x", ".git", ".io/a", ".zip">>,
    <<"https://x/a.tar">> }

ClientIds == {"", "c1"}

LockFiles == {"yarn.lock", "pnpm-lock.yaml"}

DepNames == {"next", "vue", "react", "react-scripts", "vite"}
DevDepNames == {"vite"}

\* package.json as read: absent, or its dependencies and devDependencies keys
NoManifest == [present |-> FALSE, dependencies |-> {}, devDependencies |-> {}]
Manifests ==
  {NoManifest} \cup
  [present : {TRUE}, dependencies : SUBSET DepNames, devDependencies : SUBSET DevDepNames]

OutputDirs == {"out", ".next", "dist", "build"}

\* what the acquired tree holds at its top level, and where the project is
MaxRootDirs == 2
MaxRootFiles == 1
EmptyTree == [dirs |-> 0, files |-> 0, project |-> "none"]
Layouts ==
  {EmptyTree} \cup
  { l \in [dirs : 0..MaxRootDirs, files : 0..MaxRootFiles, project : {"root", "sub"}] :
      /\ l.project = "sub" => l.dirs >= 1
      /\ l.project = "root" => l.files >= 1 }

(***************************************************************************)
(* String helpers                                                          *)
(***************************************************************************)
EndsWith(s, suffix) == Len(s) > 0 /\ s[Len(s)] = suffix

Contains(s, part) == \E i \in 1..Len(s) : s[i] = part

\* grep -q "\"name\"" on the text of package.json
Grep(pkgJson, name) ==
  pkgJson.present /\ name \in (pkgJson.dependencies \cup pkgJson.devDependencies)

(***************************************************************************)
(* State                                                                   *)
(***************************************************************************)
VARIABLES
  mode,            \* which program runs the job
  pc,              \* position in that program
  source_url,      \* req.body.source_url / CLIENT_ASSEST_URL
  client_id,       \* req.body.client_id / CLIENT_ID
  callbackUrl,     \* TRUE iff CALLBACK_URL is set
  sourceKind,      \* "git", "zip" or "none": the branch of the source dispatch
  layout,          \* top level of the acquired tree
  flattened,       \* workflow: the single top-level directory was moved up
  projectDir,      \* api: "workspace" or "entry" (the single entry of workspace)
  lockfiles,       \* lock files seen in the project root
  pkg,             \* package.json as read from the project root
  dirs,            \* output directories present in the project root
  pm,              \* resolved package manager
  framework,       \* resolved framework
  buildCmd,        \* resolved build command
  outDir,          \* resolved output directory (outDir / DIST_FOLDER)
  installExit,     \* exit status of the install command, -1 before it ran
  buildExit,       \* exit status of "run build", -1 before it ran
  exportExit,      \* exit status of "run export", -1 if it did not run
  stages,          \* history: the stages entered, in order
  archive,         \* TRUE once the archive of the output directory is written
  payloads,        \* history: JSON_PAYLOAD of every send_callback call
  i,               \* send_callback: loop variable
  DELAY,           \* send_callback: DELAY
  attempts,        \* history: number of curl invocations of the callback
  sleeps,          \* history: the durations slept by send_callback
  delivery,        \* "none", "delivered" (return 0) or "exhausted" (return 1)
  after,           \* what follows send_callback: "exit" (exit 1) or "final"
  exitCode,        \* exit status of the workflow / script, -1 while running
  response,        \* api: the HTTP response, status 0 while none was sent
  errorMessage,    \* the failure message reported, "" if none
  workspaceExists, \* api: /tmp/build-<jobId> exists
  output_url,      \* the artifact URL obtained, "" if none
  download,        \* outcome of the archive download, "none" if there was none
  workspaceOwner,  \* api: who created /tmp/build-<jobId>: "none", "earlier", "job"
  bucket           \* api: who last saved each object of the bucket

vars ==
  << mode, pc, source_url, client_id, callbackUrl, sourceKind, layout, flattened,
     projectDir, lockfiles, pkg, dirs, pm, framework, buildCmd, outDir,
     installExit, buildExit, exportExit, stages, archive, payloads, i, DELAY,
     attempts, sleeps, delivery, after, exitCode, response, errorMessage,
     workspaceExists, output_url, download, workspaceOwner, bucket >>

jobVars ==
  << mode, source_url, client_id, callbackUrl >>

treeVars ==
  << sourceKind, layout, flattened, projectDir >>

detectVars ==
  << lockfiles, pkg, pm, framework, buildCmd, outDir >>

buildVars ==
  << dirs, installExit, buildExit, exportExit, archive >>

notifyVars ==
  << payloads, i, DELAY, attempts, sleeps, delivery, after >>

apiVars ==
  << response, workspaceExists >>

envVars ==
  << download, workspaceOwner, bucket >>

OtherClientIds == {"c1", "c2"}

\* line 85: zipName
ZipName(client) == <<"despia_builder_", client, ".zip">>

\* line 94: the object name `output/${zipName}`
BlobKey(client) == <<"output/">> \o ZipName(client)

BlobKeys == {BlobKey(c) : c \in (ClientIds \cup OtherClientIds)}

NoResponse == [status |-> 0, error |-> "", output_url |-> ""]

Init ==
  /\ mode \in Modes
  /\ pc = "start"
  /\ source_url \in Urls
  /\ client_id \in ClientIds
  /\ callbackUrl \in BOOLEAN
  /\ (mode # "workflow" => callbackUrl = FALSE)
  /\ (mode = "workflow" => client_id = "c1")
  /\ (mode = "scripts" => source_url = <<>> /\ client_id = "")
  /\ sourceKind = "none"
  /\ layout = EmptyTree
  /\ flattened = FALSE
  /\ projectDir = "none"
  /\ lockfiles = {}
  /\ pkg = NoManifest
  /\ dirs = {}
  /\ pm = ""
  /\ framework = ""
  /\ buildCmd = <<>>
  /\ outDir = ""
  /\ installExit = -1
  /\ buildExit = -1
  /\ exportExit = -1
  /\ stages = <<>>
  /\ archive = FALSE
  /\ payloads = <<>>
  /\ i = 0
  /\ DELAY = 0
  /\ attempts = 0
  /\ sleeps = <<>>
  /\ delivery = "none"
  /\ after = "none"
  /\ exitCode = -1
  /\ response = NoResponse
  /\ errorMessage = ""
  /\ workspaceExists = FALSE
  /\ output_url = ""
  /\ download = "none"
  /\ workspaceOwner = "none"
  /\ bucket = [k \in BlobKeys |-> "none"]

(***************************************************************************)
(* README.md: send_callback / send_failure_callback                        *)
(***************************************************************************)
MAX_RETRIES == 5
INITIAL_DELAY == 2

CM_BUILD_ID == "64c1234567890abcdef123456"
CM_ARTIFACT_URL == "https://app.codemagic.io/app/CM_APP_ID/build/CM_BUILD_ID/artifacts"

\* jq -n ... : the payload built from the arguments of send_callback
JSON_PAYLOAD(status, message, url) ==
  [ build_id |-> CM_BUILD_ID,
    client_id |-> client_id,
    output_url |-> url,
    status |-> status,
    message |-> message ]

\* send_callback status message [output_url]: builds the payload and enters the loop
send_callback(status, message, url, then) ==
  /\ payloads' = Append(payloads, JSON_PAYLOAD(status, message, url))
  /\ i' = 1
  /\ DELAY' = INITIAL_DELAY
  /\ after' = then
  /\ delivery' = "none"
  /\ pc' = "cb_attempt"
  /\ UNCHANGED << attempts, sleeps >>

FailureUrlWithArtifact == CM_ARTIFACT_URL

\* the third argument that send_failure_callback passes on
FailureUrl == ""

\* send_failure_callback message: send_callback "failed" message "", then exit 1
send_failure_callback(message) ==
  /\ send_callback("failed", message, FailureUrl, "exit")
  /\ errorMessage' = message

\* the third argument of the final send_callback "success"
SuccessUrl == CM_ARTIFACT_URL

LoopHasOneMore(n) == n <= MAX_RETRIES + 1

\* for i in $(seq 1 $MAX_RETRIES): is there an iteration i
LoopHas(n) == n <= MAX_RETRIES

NextDelayLinear(d) == d + INITIAL_DELAY

\* DELAY=$((DELAY * 2))
NextDelay(d) == d * 2

\* curl -fs ... "$CALLBACK_URL" && return 0
CurlThenSleep(curlOk) == "cb_sleep"

\* curl -fs ... "$CALLBACK_URL" && return 0: where the loop body goes after curl
CurlThen(curlOk) == IF curlOk THEN "cb_return" ELSE "cb_sleep"

SleepFollowsUnlessLast(n) == n < MAX_RETRIES

\* sleep $DELAY stands unguarded in the loop body: it follows the failed attempt
\* of every iteration n
SleepFollows(n) == LoopHas(n)

ExitWithCallbackStatus(then, result) ==
  IF then = "exit" \/ result = "exhausted" THEN 1 ELSE 0

\* exit status of the script that called send_callback: send_failure_callback
\* runs exit 1, the publishing script goes on to its last echo
ExitAfterCallback(then, result) == IF then = "exit" THEN 1 ELSE 0

CallbackAttempt ==
  /\ mode = "workflow"
  /\ pc = "cb_attempt"
  /\ LoopHas(i)
  /\ attempts' = attempts + 1
  /\ \E curlOk \in BOOLEAN :
       /\ (curlOk => callbackUrl)
       /\ delivery' = IF curlOk THEN "delivered" ELSE delivery
       /\ pc' = CurlThen(curlOk)
  /\ UNCHANGED << jobVars, envVars, treeVars, detectVars, buildVars, apiVars, stages, payloads,
                  i, DELAY, sleeps, after, exitCode, errorMessage, output_url >>

\* sleep $DELAY; DELAY=$((DELAY * 2)); next i, or leave the loop and return 1
CallbackSleep ==
  /\ mode = "workflow"
  /\ pc = "cb_sleep"
  /\ sleeps' = IF SleepFollows(i) THEN Append(sleeps, DELAY) ELSE sleeps
  /\ DELAY' = NextDelay(DELAY)
  /\ i' = i + 1
  /\ IF LoopHas(i + 1)
       THEN /\ pc' = "cb_attempt"
            /\ delivery' = delivery
       ELSE /\ pc' = "cb_return"
            /\ delivery' = "exhausted"
  /\ UNCHANGED << jobVars, envVars, treeVars, detectVars, buildVars, apiVars, stages, payloads,
                  attempts, after, exitCode, errorMessage, output_url >>

\* back in the caller: send_failure_callback exits 1, the publishing script ends
CallbackReturn ==
  /\ mode = "workflow"
  /\ pc = "cb_return"
  /\ pc' = "done"
  /\ exitCode' = ExitAfterCallback(after, delivery)
  /\ UNCHANGED << jobVars, envVars, treeVars, detectVars, buildVars, apiVars, notifyVars, stages,
                  errorMessage, output_url >>

(***************************************************************************)
(* README.md: the workflow scripts                                         *)
(***************************************************************************)
\* find . -maxdepth 1 -mindepth 1 -type d | wc -l, in source/ (a clone has .git)
FindDirs(kind, l) == l.dirs + (IF kind = "git" THEN 1 ELSE 0)

\* [[ $(find ...) -eq 1 ]]: the flattening condition of script 1
SingleTopDir(kind, l) == FindDirs(kind, l) = 1

\* is package.json of the project in the directory script 2 runs in
WorkflowSeesProject ==
  \/ layout.project = "root"
  \/ layout.project = "sub" /\ flattened /\ sourceKind = "zip"

\* the if / elif chain of script 2; FRAMEWORK "" is the else branch
WorkflowDetect(pkgJson) ==
  IF Grep(pkgJson, "next")
    THEN [FRAMEWORK |-> "Next.js", DIST_FOLDER |-> ".next"]
  ELSE IF Grep(pkgJson, "react") /\ Grep(pkgJson, "react-scripts")
    THEN [FRAMEWORK |-> "CRA-React", DIST_FOLDER |-> "build"]
  ELSE IF Grep(pkgJson, "react") /\ Grep(pkgJson, "vite")
    THEN [FRAMEWORK |-> "Vite-React", DIST_FOLDER |-> "dist"]
  ELSE IF Grep(pkgJson, "vue")
    THEN [FRAMEWORK |-> "Vue.js", DIST_FOLDER |-> "dist"]
  ELSE [FRAMEWORK |-> "", DIST_FOLDER |-> ""]

DistFolderNeverMissing(folder, present) == FALSE

\* [ ! -d $DIST_FOLDER ]
DistFolderMissing(folder, present) == folder \notin present

MsgClone == "Failed to clone Git repository."
MsgDownload == "Failed to download zip file."
MsgExtract == "Failed to extract zip file."
MsgNeither == "Source URL is neither a Git repository nor a Zip file."
MsgNoManifest == "Could not find package.json in the source code root."
MsgInstall == "npm install failed. Check project dependencies."
MsgUnsupported == "Unsupported framework detected."
MsgBuild == "Build command failed (npm run build)."
MsgNoDist == "Build succeeded, but the expected distribution folder was not found."
MsgZip == "Failed to zip the distribution folder."
MsgSuccess == "Build completed, artifact successfully published."

\* script "1. Fetch Source Code (Git or Zip)"
FetchSource ==
  /\ mode = "workflow"
  /\ pc = "start"
  /\ stages' = Append(stages, "Fetching")
  /\ \E cloneOk \in BOOLEAN, fetched \in {"ok", "http404", "error"},
        unzipOk \in BOOLEAN, tree \in Layouts :
       IF Contains(source_url, ".git")
         THEN /\ sourceKind' = "git"
              /\ download' = download
              /\ IF cloneOk
                   THEN /\ layout' = tree
                        /\ flattened' = SingleTopDir("git", tree)
                        /\ pc' = "w_manifest"
                        /\ UNCHANGED << notifyVars, errorMessage >>
                   ELSE /\ send_failure_callback(MsgClone)
                        /\ UNCHANGED << layout, flattened >>
       ELSE IF Contains(source_url, ".zip")
         THEN /\ sourceKind' = "zip"
              /\ download' = fetched
              /\ IF fetched = "error"
                   THEN /\ send_failure_callback(MsgDownload)
                        /\ UNCHANGED << layout, flattened >>
                 ELSE IF fetched = "http404" \/ ~unzipOk
                   THEN /\ send_failure_callback(MsgExtract)
                        /\ UNCHANGED << layout, flattened >>
                 ELSE /\ layout' = tree
                      /\ flattened' = SingleTopDir("zip", tree)
                      /\ pc' = "w_manifest"
                      /\ UNCHANGED << notifyVars, errorMessage >>
       ELSE /\ send_failure_callback(MsgNeither)
            /\ UNCHANGED << sourceKind, layout, flattened, download >>
  /\ UNCHANGED << jobVars, workspaceOwner, bucket, projectDir, detectVars, buildVars, apiVars, exitCode,
                  output_url >>

\* script 2: if [ ! -f package.json ]
CheckManifest ==
  /\ mode = "workflow"
  /\ pc = "w_manifest"
  /\ \E m \in Manifests :
       /\ (~WorkflowSeesProject => m = NoManifest)
       /\ pkg' = m
       /\ IF m.present
            THEN /\ pc' = "w_install"
                 /\ UNCHANGED << notifyVars, errorMessage >>
            ELSE send_failure_callback(MsgNoManifest)
  /\ UNCHANGED << jobVars, envVars, treeVars, lockfiles, pm, framework, buildCmd, outDir,
                  buildVars, apiVars, stages, exitCode, output_url >>

\* script 2: if ! npm install
WorkflowInstall ==
  /\ mode = "workflow"
  /\ pc = "w_install"
  /\ stages' = Append(stages, "Installing")
  /\ pm' = "npm"
  /\ \E status \in {0, 1} :
       /\ installExit' = status
       /\ IF status = 0
            THEN /\ pc' = "w_detect"
                 /\ UNCHANGED << notifyVars, errorMessage >>
            ELSE send_failure_callback(MsgInstall)
  /\ UNCHANGED << jobVars, envVars, treeVars, lockfiles, pkg, framework, buildCmd, outDir,
                  dirs, buildExit, exportExit, archive, apiVars, exitCode, output_url >>

\* script 2: "Logic to detect common web frameworks"
WorkflowDetectFramework ==
  /\ mode = "workflow"
  /\ pc = "w_detect"
  /\ stages' = Append(stages, "Detecting")
  /\ LET d == WorkflowDetect(pkg) IN
       /\ framework' = d.FRAMEWORK
       /\ outDir' = d.DIST_FOLDER
       /\ IF d.FRAMEWORK # ""
            THEN /\ buildCmd' = <<"npm", "run build">>
                 /\ pc' = "w_build"
                 /\ UNCHANGED << notifyVars, errorMessage >>
            ELSE /\ buildCmd' = buildCmd
                 /\ send_failure_callback(MsgUnsupported)
  /\ UNCHANGED << jobVars, envVars, treeVars, lockfiles, pkg, pm, buildVars, apiVars, exitCode,
                  output_url >>

\* script 2: if ! npm run build
WorkflowBuild ==
  /\ mode = "workflow"
  /\ pc = "w_build"
  /\ stages' = Append(stages, "Building")
  /\ \E status \in {0, 1}, produced \in SUBSET OutputDirs :
       /\ buildExit' = status
       /\ IF status = 0
            THEN /\ dirs' = produced
                 /\ pc' = "w_distcheck"
                 /\ UNCHANGED << notifyVars, errorMessage >>
            ELSE /\ dirs' = dirs
                 /\ send_failure_callback(MsgBuild)
  /\ UNCHANGED << jobVars, envVars, treeVars, detectVars, installExit, exportExit, archive,
                  apiVars, exitCode, output_url >>

\* script 2: if [ ! -d $DIST_FOLDER ], else the folder name goes to /tmp
CheckDistFolder ==
  /\ mode = "workflow"
  /\ pc = "w_distcheck"
  /\ IF DistFolderMissing(outDir, dirs)
       THEN send_failure_callback(MsgNoDist)
       ELSE /\ pc' = "w_zip"
            /\ UNCHANGED << notifyVars, errorMessage >>
  /\ UNCHANGED << jobVars, envVars, treeVars, detectVars, buildVars, apiVars, stages, exitCode,
                  output_url >>

\* publishing script "3. Zip Artifact and Final Success Callback"
ZipAndPublish ==
  /\ mode = "workflow"
  /\ pc = "w_zip"
  /\ stages' = Append(stages, "Packaging")
  /\ \E zipOk \in BOOLEAN :
       /\ (zipOk => outDir \in dirs)
       /\ IF zipOk
            THEN /\ archive' = TRUE
                 /\ output_url' = CM_ARTIFACT_URL
                 /\ send_callback("success", MsgSuccess, SuccessUrl, "final")
                 /\ UNCHANGED << errorMessage, exitCode >>
            ELSE /\ errorMessage' = MsgZip
                 /\ exitCode' = 1
                 /\ pc' = "done"
                 /\ UNCHANGED << archive, output_url, notifyVars >>
  /\ UNCHANGED << jobVars, envVars, treeVars, detectVars, dirs, installExit, buildExit,
                  exportExit, apiVars >>

WorkflowNext ==
  \/ FetchSource
  \/ CheckManifest
  \/ WorkflowInstall
  \/ WorkflowDetectFramework
  \/ WorkflowBuild
  \/ CheckDistFolder
  \/ ZipAndPublish
  \/ CallbackAttempt
  \/ CallbackSleep
  \/ CallbackReturn

(***************************************************************************)
(* api/index.js: app.post("/build")                                        *)
(***************************************************************************)
\* fs.readdirSync(workspace).length: the tree plus .git or source.zip
ApiEntries(l) == l.dirs + l.files + 1

\* entries.length === 1 && statSync(entries[0]).isDirectory(): a lone entry is
\* .git after a clone and source.zip after a download
ApiProjectDir(kind, l) ==
  IF ApiEntries(l) = 1 /\ kind = "git" THEN "entry" ELSE "workspace"

\* is the project in the directory the handler uses as projectDir
ApiSeesProject(dir, l) == dir = "workspace" /\ l.project = "root"

\* the conditional expression that sets pm
ApiPm(present) ==
  IF "yarn.lock" \in present THEN "yarn"
  ELSE IF "pnpm-lock.yaml" \in present THEN "pnpm"
  ELSE "npm"

\* the if / else-if chain on pkg.dependencies; framework names the branch taken
ApiDetect(manager, pkgJson, outExists) ==
  IF "next" \in pkgJson.dependencies
    THEN [framework |-> "next",
          buildCmd |-> <<manager, "run build", "&&", manager, "run export", "||", "true">>,
          outDir |-> IF outExists THEN "out" ELSE ".next"]
  ELSE IF "vue" \in pkgJson.dependencies
    THEN [framework |-> "vue", buildCmd |-> <<manager, "run build">>, outDir |-> "dist"]
  ELSE IF "react" \in pkgJson.dependencies
    THEN [framework |-> "react", buildCmd |-> <<manager, "run build">>, outDir |-> "build"]
  ELSE [framework |-> "unknown", buildCmd |-> <<"npm", "run build">>, outDir |-> "dist"]

\* does the command line run "run export" after "run build"
HasExport(cmd) == Len(cmd) >= 5 /\ cmd[3] = "&&"

\* exit status of the shell running cmd: a && b || true is always 0
ShellStatus(cmd, build, export) ==
  IF Len(cmd) >= 7 /\ cmd[6] = "||" /\ cmd[7] = "true" THEN 0
  ELSE IF HasExport(cmd) THEN (IF build # 0 THEN build ELSE export)
  ELSE build

ErrRequired == "source_url and client_id are required"
ErrSourceType == "Unsupported source type. Must be .git or .zip"
ErrClone == "git clone failed"
ErrFetch == "request to source_url failed"
ErrZipFormat == "Invalid or unsupported zip format"
ErrNoManifest == "ENOENT: no such file or directory, open package.json"
ErrInstall == "Command failed: install"
ErrBuild == "Command failed: build"
ErrNoOutDir == "File not found: outputPath"
ErrWriteZip == "writeZip failed"
ErrUpload == "upload failed"
ErrSign == "getSignedUrl failed"

SignedUrl == "https://storage.googleapis.com/bucket/output/zipName?X-Goog-Signature"

MkdirRecursive(exists) == FALSE

\* fs.mkdirSync(workspace), not recursive: throws EEXIST when the directory exists
MkdirThrows(exists) == exists

ErrExists == "EEXIST: file already exists, mkdir workspace"

\* catch (err): res.status(500).json({ error: err.message })
Catch(message) ==
  /\ response' = [status |-> 500, error |-> message, output_url |-> ""]
  /\ errorMessage' = message
  /\ pc' = "done"

\* lines 19-28: validation, jobId, mkdirSync(workspace); taken: a job that drew the
\* same jobId has created /tmp/build-<jobId> before
Accept ==
  /\ mode = "api"
  /\ pc = "start"
  /\ IF source_url = <<>> \/ client_id = ""
       THEN /\ response' = [status |-> 400, error |-> ErrRequired, output_url |-> ""]
            /\ errorMessage' = ErrRequired
            /\ pc' = "done"
            /\ UNCHANGED << workspaceExists, workspaceOwner >>
       ELSE \E taken \in BOOLEAN :
              /\ workspaceExists' = TRUE
              /\ workspaceOwner' = IF taken THEN "earlier" ELSE "job"
              /\ IF MkdirThrows(taken)
                   THEN Catch(ErrExists)
                   ELSE /\ pc' = "a_fetch"
                        /\ UNCHANGED << response, errorMessage >>
  /\ UNCHANGED << jobVars, download, bucket, treeVars, detectVars, buildVars, notifyVars, stages,
                  exitCode, output_url >>

\* lines 31-45: clone, or download and extract, or 400
CloneOrDownload ==
  /\ mode = "api"
  /\ pc = "a_fetch"
  /\ \E cloneOk \in BOOLEAN, fetched \in {"ok", "http404", "error"},
        extractOk \in BOOLEAN, tree \in Layouts :
       IF EndsWith(source_url, ".git")
         THEN /\ sourceKind' = "git"
              /\ download' = download
              /\ stages' = Append(stages, "Fetching")
              /\ IF cloneOk
                   THEN /\ layout' = tree
                        /\ pc' = "a_detect"
                        /\ UNCHANGED << response, errorMessage >>
                   ELSE /\ Catch(ErrClone)
                        /\ UNCHANGED layout
       ELSE IF EndsWith(source_url, ".zip")
         THEN /\ sourceKind' = "zip"
              /\ download' = fetched
              /\ stages' = Append(stages, "Fetching")
              /\ IF fetched = "error"
                   THEN /\ Catch(ErrFetch)
                        /\ UNCHANGED layout
                 ELSE IF fetched = "http404" \/ ~extractOk
                   THEN /\ Catch(ErrZipFormat)
                        /\ UNCHANGED layout
                 ELSE /\ layout' = tree
                      /\ pc' = "a_detect"
                      /\ UNCHANGED << response, errorMessage >>
       ELSE /\ response' = [status |-> 400, error |-> ErrSourceType, output_url |-> ""]
            /\ errorMessage' = ErrSourceType
            /\ pc' = "done"
            /\ UNCHANGED << sourceKind, layout, stages, download >>
  /\ UNCHANGED << jobVars, workspaceOwner, bucket, flattened, projectDir, detectVars, buildVars, notifyVars,
                  exitCode, workspaceExists, output_url >>

\* lines 47-77: projectDir, pm, package.json, buildCmd and outDir
Detect ==
  /\ mode = "api"
  /\ pc = "a_detect"
  /\ stages' = Append(stages, "Detecting")
  /\ LET dir == ApiProjectDir(sourceKind, layout) IN
     \E present \in SUBSET LockFiles, m \in Manifests, outExists \in BOOLEAN :
       /\ (~ApiSeesProject(dir, layout) => present = {} /\ m = NoManifest)
       /\ (outExists => "next" \in m.dependencies)
       /\ projectDir' = dir
       /\ lockfiles' = present
       /\ pm' = ApiPm(present)
       /\ pkg' = m
       /\ IF m.present
            THEN LET d == ApiDetect(ApiPm(present), m, outExists) IN
                 /\ framework' = d.framework
                 /\ buildCmd' = d.buildCmd
                 /\ outDir' = d.outDir
                 /\ dirs' = IF outExists THEN {"out"} ELSE {}
                 /\ pc' = "a_install"
                 /\ UNCHANGED << response, errorMessage >>
            ELSE /\ Catch(ErrNoManifest)
                 /\ UNCHANGED << framework, buildCmd, outDir, dirs >>
  /\ UNCHANGED << jobVars, envVars, sourceKind, layout, flattened, installExit, buildExit,
                  exportExit, archive, notifyVars, exitCode, workspaceExists,
                  output_url >>

\* line 80: execSync(`${pm} install`)
Install ==
  /\ mode = "api"
  /\ pc = "a_install"
  /\ stages' = Append(stages, "Installing")
  /\ \E status \in {0, 1} :
       /\ installExit' = status
       /\ IF status = 0
            THEN /\ pc' = "a_build"
                 /\ UNCHANGED << response, errorMessage >>
            ELSE Catch(ErrInstall)
  /\ UNCHANGED << jobVars, envVars, treeVars, detectVars, dirs, buildExit, exportExit, archive,
                  notifyVars, exitCode, workspaceExists, output_url >>

\* line 81: execSync(buildCmd)
Build ==
  /\ mode = "api"
  /\ pc = "a_build"
  /\ stages' = Append(stages, "Building")
  /\ \E build \in {0, 1}, export \in {0, 1}, produced \in SUBSET OutputDirs :
       LET ran == HasExport(buildCmd) /\ build = 0
           exp == IF ran THEN export ELSE -1
       IN
       /\ (~ran => export = 0)
       /\ buildExit' = build
       /\ exportExit' = exp
       /\ IF ShellStatus(buildCmd, build, exp) = 0
            THEN /\ dirs' = produced
                 /\ pc' = "a_zip"
                 /\ UNCHANGED << response, errorMessage >>
            ELSE /\ dirs' = dirs
                 /\ Catch(ErrBuild)
  /\ UNCHANGED << jobVars, envVars, treeVars, detectVars, installExit, archive, notifyVars,
                  exitCode, workspaceExists, output_url >>

\* lines 84-91: zip.addLocalFolder(outputPath); zip.writeZip(zipFullPath)
ZipOutput ==
  /\ mode = "api"
  /\ pc = "a_zip"
  /\ stages' = Append(stages, "Packaging")
  /\ \E writeOk \in BOOLEAN :
       IF outDir \notin dirs
         THEN /\ writeOk
              /\ Catch(ErrNoOutDir)
              /\ UNCHANGED archive
       ELSE IF writeOk
         THEN /\ archive' = TRUE
              /\ pc' = "a_upload"
              /\ UNCHANGED << response, errorMessage >>
       ELSE /\ Catch(ErrWriteZip)
            /\ UNCHANGED archive
  /\ UNCHANGED << jobVars, envVars, treeVars, detectVars, dirs, installExit, buildExit,
                  exportExit, notifyVars, exitCode, workspaceExists, output_url >>

\* lines 94-95: blob.save(...)
Upload ==
  /\ mode = "api"
  /\ pc = "a_upload"
  /\ stages' = Append(stages, "Publishing")
  /\ \E saveOk \in BOOLEAN :
       IF saveOk
         THEN /\ bucket' = [bucket EXCEPT ![BlobKey(client_id)] = "job"]
              /\ pc' = "a_sign"
              /\ UNCHANGED << response, errorMessage >>
         ELSE /\ Catch(ErrUpload)
              /\ UNCHANGED bucket
  /\ UNCHANGED << jobVars, download, workspaceOwner, treeVars, detectVars, buildVars, notifyVars, exitCode,
                  workspaceExists, output_url >>

\* lines 98-107: blob.getSignedUrl(...), res.json(...)
SignAndRespond ==
  /\ mode = "api"
  /\ pc = "a_sign"
  /\ \E signOk \in BOOLEAN :
       IF signOk
         THEN /\ output_url' = SignedUrl
              /\ response' = [status |-> 200, error |-> "", output_url |-> SignedUrl]
              /\ pc' = "done"
              /\ UNCHANGED errorMessage
         ELSE /\ Catch(ErrSign)
              /\ UNCHANGED output_url
  /\ UNCHANGED << jobVars, envVars, treeVars, detectVars, buildVars, notifyVars, stages,
                  exitCode, workspaceExists >>

\* lines 94-95 run by another job, for client other, after this job has answered
\* (an earlier save to the same object is replaced by this job's own save)
OtherJobUpload ==
  /\ mode = "api"
  /\ pc = "done"
  /\ response.status = 200
  /\ \E other \in OtherClientIds :
       /\ bucket[BlobKey(other)] # "other"
       /\ bucket' = [bucket EXCEPT ![BlobKey(other)] = "other"]
  /\ UNCHANGED << jobVars, download, workspaceOwner, treeVars, detectVars, buildVars,
                  notifyVars, apiVars, stages, pc, exitCode, errorMessage, output_url >>

ApiNext ==
  \/ Accept
  \/ CloneOrDownload
  \/ Detect
  \/ Install
  \/ Build
  \/ ZipOutput
  \/ Upload
  \/ SignAndRespond
  \/ OtherJobUpload

(***************************************************************************)
(* build_deploy.sh: the detect script and the build script                 *)
(***************************************************************************)
\* PM="npm"; if yarn.lock then yarn; if pnpm-lock.yaml then pnpm
ScriptPm(present) ==
  LET pm0 == "npm"
      pm1 == IF "yarn.lock" \in present THEN "yarn" ELSE pm0
  IN  IF "pnpm-lock.yaml" \in present THEN "pnpm" ELSE pm1

\* FRAMEWORK="unknown", then four independent if statements ("naive detection")
ScriptFramework(pkgJson) ==
  LET fw0 == "unknown"
      fw1 == IF Grep(pkgJson, "next") THEN "next" ELSE fw0
      fw2 == IF Grep(pkgJson, "react-scripts") THEN "react-scripts" ELSE fw1
      fw3 == IF Grep(pkgJson, "vite") THEN "vite" ELSE fw2
  IN  IF Grep(pkgJson, "vue") THEN "vue" ELSE fw3

\* if dist / elif out / elif .next: the directory that is zipped, "" for exit 1
ScriptBundleDir(present) ==
  IF "dist" \in present THEN "dist"
  ELSE IF "out" \in present THEN "out"
  ELSE IF ".next" \in present THEN ".next"
  ELSE ""

EchoNoOutput == "No common build output (dist/out/.next)."
EchoInstall == "install command failed"
EchoZip == "zip command failed"

\* the detect script: prints package_manager and framework
ScriptDetect ==
  /\ mode = "scripts"
  /\ pc = "start"
  /\ stages' = Append(stages, "Detecting")
  /\ \E present \in SUBSET LockFiles, m \in Manifests :
       /\ lockfiles' = present
       /\ pkg' = m
       /\ pm' = ScriptPm(present)
       /\ framework' = ScriptFramework(m)
  /\ buildCmd' = <<"npm", "run build">>
  /\ pc' = "s_install"
  /\ UNCHANGED << jobVars, envVars, treeVars, outDir, buildVars, notifyVars, apiVars, exitCode,
                  errorMessage, output_url >>

\* the build script, set -e: yarn install / pnpm install / npm ci
ScriptInstall ==
  /\ mode = "scripts"
  /\ pc = "s_install"
  /\ stages' = Append(stages, "Installing")
  /\ \E status \in {0, 1} :
       /\ installExit' = status
       /\ IF status = 0
            THEN /\ pc' = "s_build"
                 /\ UNCHANGED << exitCode, errorMessage >>
            ELSE /\ pc' = "done"
                 /\ exitCode' = 1
                 /\ errorMessage' = EchoInstall
  /\ UNCHANGED << jobVars, envVars, treeVars, detectVars, dirs, buildExit, exportExit, archive,
                  notifyVars, apiVars, output_url >>

\* npm run build || true, and for next: npm run export || true; cp -r out dist || true
ScriptBuild ==
  /\ mode = "scripts"
  /\ pc = "s_build"
  /\ stages' = Append(stages, "Building")
  /\ \E build \in {0, 1}, export \in {0, 1}, produced \in SUBSET OutputDirs,
        cpOk \in BOOLEAN :
       /\ (framework # "next" => export = 0)
       /\ (~(framework = "next" /\ "out" \in produced) => cpOk)
       /\ buildExit' = build
       /\ exportExit' = IF framework = "next" THEN export ELSE -1
       /\ dirs' = IF framework = "next" /\ "out" \in produced /\ cpOk
                    THEN produced \cup {"dist"}
                    ELSE produced
  /\ pc' = "s_zip"
  /\ UNCHANGED << jobVars, envVars, treeVars, detectVars, installExit, archive, notifyVars,
                  apiVars, exitCode, errorMessage, output_url >>

\* zip -r bundle.zip dist / out / .next, else exit 1
ScriptZip ==
  /\ mode = "scripts"
  /\ pc = "s_zip"
  /\ LET dir == ScriptBundleDir(dirs) IN
     \E zipOk \in BOOLEAN :
       /\ outDir' = dir
       /\ pc' = "done"
       /\ IF dir = ""
            THEN /\ zipOk
                 /\ exitCode' = 1
                 /\ errorMessage' = EchoNoOutput
                 /\ UNCHANGED << archive, stages >>
          ELSE IF zipOk
            THEN /\ archive' = TRUE
                 /\ exitCode' = 0
                 /\ stages' = Append(stages, "Packaging")
                 /\ UNCHANGED errorMessage
          ELSE /\ exitCode' = 1
               /\ errorMessage' = EchoZip
               /\ stages' = Append(stages, "Packaging")
               /\ UNCHANGED archive
  /\ UNCHANGED << jobVars, envVars, treeVars, lockfiles, pkg, pm, framework, buildCmd, dirs,
                  installExit, buildExit, exportExit, notifyVars, apiVars, output_url >>

ScriptsNext ==
  \/ ScriptDetect
  \/ ScriptInstall
  \/ ScriptBuild
  \/ ScriptZip

Next ==
  \/ WorkflowNext
  \/ ApiNext
  \/ ScriptsNext

Spec == Init /\ [][Next]_vars

(***************************************************************************)
(* Properties                                                              *)
(***************************************************************************)
Terminal == pc = "done"

InStages(stage) == \E k \in 1..Len(stages) : stages[k] = stage

\* the job was turned down as an invalid request
Rejected ==
  \/ mode = "api" /\ response.status = 400
  \/ mode = "workflow" /\ errorMessage = MsgNeither

Succeeded ==
  \/ mode = "api" /\ response.status = 200
  \/ mode \in {"workflow", "scripts"} /\ exitCode = 0

Failed ==
  \/ mode = "api" /\ response.status = 500
  \/ mode \in {"workflow", "scripts"} /\ exitCode = 1

\* a success report that carries a non-empty artifact URL
SuccessReported ==
  \/ mode = "api" /\ response.status = 200 /\ response.output_url # ""
  \/ /\ mode = "workflow"
     /\ \E k \in 1..Len(payloads) :
          payloads[k].status = "success" /\ payloads[k].output_url # ""

\* C1: every accepted job of the workflow has, once it has ended, initiated
\* exactly one notification sequence, and never more than one before that.
C1_ExactlyOneSequence ==
  mode = "workflow" =>
    /\ Len(payloads) <= 1
    /\ (Terminal /\ ~Rejected => Len(payloads) = 1)

\* C2: every payload constructed has status "failed" exactly when its output_url
\* is empty and status "success" exactly when its output_url is the non-empty
\* artifact URL.
C2_StatusAndUrlAgree ==
  \A k \in 1..Len(payloads) :
    LET p == payloads[k] IN
    /\ p.status \in {"success", "failed"}
    /\ (p.status = "failed" <=> p.output_url = "")
    /\ (p.status = "success" <=> (p.output_url # "" /\ p.output_url = output_url))

C2_Witness ==
  /\ Terminal
  /\ Len(payloads) = 1
  /\ payloads[1].status = "success"
  /\ delivery = "delivered"

\* C3: a notification sequence never makes more than MAX_RETRIES delivery attempts.
C3_AttemptsBounded == attempts <= MAX_RETRIES

C3_Witness == attempts = MAX_RETRIES /\ delivery = "exhausted"

\* C4: the sleep between attempt n-1 and attempt n (2 <= n <= 5) lasts
\* INITIAL_DELAY * 2^(n-2): 2, 4, 8, 16.
C4_BackoffDoubles ==
  \A n \in 2..MAX_RETRIES :
    attempts >= n =>
      /\ Len(sleeps) >= n - 1
      /\ sleeps[n - 1] = INITIAL_DELAY * 2^(n - 2)

C4_Witness ==
  /\ attempts = MAX_RETRIES
  /\ Len(sleeps) >= 4
  /\ sleeps[4] = 16

\* C5: when the install command or the build command exited non-zero, the
\* Packaging stage is never entered, no archive is written and the job does not
\* succeed.
C5_FailedCommandStopsJob ==
  (installExit > 0 \/ buildExit > 0) =>
    /\ ~InStages("Packaging")
    /\ ~archive
    /\ ~Succeeded

\* the output directory the program expects is absent after the build
ExpectedDirMissing ==
  IF mode = "scripts" THEN ScriptBundleDir(dirs) = "" ELSE outDir \notin dirs

\* C6: a job whose build exited zero but whose expected output directory is
\* absent ends as a failure that reports the missing directory, never as success.
C6_MissingOutputDirFails ==
  (Terminal /\ buildExit = 0 /\ ExpectedDirMissing) =>
    /\ Failed
    /\ ~Succeeded
    /\ ~archive
    /\ errorMessage \in {MsgNoDist, ErrNoOutDir, EchoNoOutput}

C6_Witness ==
  /\ mode = "workflow"
  /\ Terminal
  /\ buildExit = 0
  /\ outDir \notin dirs
  /\ Len(payloads) = 1
  /\ payloads[1].message = MsgNoDist

\* the manifest names none of the framework packages
NoRecognizedFramework(pkgJson) ==
  pkgJson.present /\ (pkgJson.dependencies \cup pkgJson.devDependencies) \cap DepNames = {}

\* C7: with a manifest that declares no recognized framework the build command is
\* never invoked and the job ends with the unsupported-framework error.
C7_UnsupportedFrameworkNeverBuilds ==
  NoRecognizedFramework(pkg) =>
    /\ ~InStages("Building")
    /\ buildExit = -1
    /\ (Terminal /\ installExit = 0 => Failed /\ errorMessage = MsgUnsupported)

\* the package manager the lock files call for: yarn, else pnpm, else npm
ExpectedPm(present) ==
  IF "yarn.lock" \in present THEN "yarn"
  ELSE IF "pnpm-lock.yaml" \in present THEN "pnpm"
  ELSE "npm"

\* C8: the resolved package manager is yarn when yarn.lock is present (also next to
\* pnpm-lock.yaml), else pnpm when pnpm-lock.yaml is present, else npm.
C8_PackageManagerPriority ==
  (mode \in {"api", "scripts"} /\ pm # "") => pm = ExpectedPm(lockfiles)

\* C9: a manifest with a next dependency resolves to next, whatever other
\* recognized dependencies it declares.
C9_NextWinsDetection ==
  (InStages("Detecting") /\ pkg.present /\ "next" \in pkg.dependencies) =>
    framework \in {"next", "Next.js"}

\* C10: a git source whose manifest declares react and no other framework package
\* resolves to react with output directory build, is not turned down as
\* unsupported, and ends with a success report when the build leaves build/.
C10_ReactOnlyGitSucceeds ==
  ( /\ sourceKind = "git"
    /\ InStages("Detecting")
    /\ pkg.present
    /\ pkg.dependencies = {"react"}
    /\ pkg.devDependencies = {} ) =>
    /\ framework = "react"
    /\ outDir = "build"
    /\ errorMessage # MsgUnsupported
    /\ (Succeeded => SuccessReported)

\* C11: a job turned down as an invalid request has no workspace allocated for it
\* and no notification payload sent, and in the handler it is answered with 400.
C11_InvalidRequestLeavesNoTrace ==
  Rejected =>
    /\ workspaceOwner # "job"
    /\ payloads = <<>>
    /\ attempts = 0

\* C12: once a job that allocated a workspace has ended, on success or on failure,
\* the workspace directory is gone.
C12_WorkspaceReclaimed ==
  (Terminal /\ workspaceOwner = "job") => ~workspaceExists

\* C13: a job that drew the jobId of a job whose workspace exists never reads or
\* writes that workspace: it enters no stage and ends with the EEXIST error.
C13_WorkspaceNeverShared ==
  (mode = "api" /\ workspaceOwner = "earlier") =>
    /\ stages = <<>>
    /\ layout = EmptyTree
    /\ ~archive
    /\ Terminal
    /\ response.status = 500
    /\ errorMessage = ErrExists

C13_Witness ==
  /\ mode = "api"
  /\ workspaceOwner = "earlier"
  /\ Terminal
  /\ response.status = 500
  /\ errorMessage = ErrExists

\* C14: the object a successful job saved is written by no other job, so the
\* download URL it returned always refers to the archive that job built.
C14_ArtifactKeyUnshared ==
  (mode = "api" /\ response.status = 200) => bucket[BlobKey(client_id)] = "job"

\* C15: when the acquired tree holds exactly one subdirectory and nothing else,
\* that subdirectory is the project root, after a clone as after an extraction.
C15_SingleSubdirIsProjectRoot ==
  (layout.dirs = 1 /\ layout.files = 0) =>
    /\ (mode = "workflow" => flattened)
    /\ (mode = "api" /\ projectDir # "none" => projectDir = "entry")

\* the message attributes the failure to the download step
MentionsDownload(message) == message = MsgDownload

\* C16: a job whose archive download returned HTTP 404 ends with a payload of
\* status "failed", empty output_url and a message that mentions the download.
C16_Download404BlamesDownload ==
  (Terminal /\ download = "http404") =>
    /\ Failed
    /\ \E k \in 1..Len(payloads) :
         /\ payloads[k].status = "failed"
         /\ payloads[k].output_url = ""
         /\ MentionsDownload(payloads[k].message)

\* C17: without a callback URL no delivery attempt is made and no backoff sleep
\* is slept.
C17_NoCallbackUrlNoAttempt ==
  (mode = "workflow" /\ ~callbackUrl) => (attempts = 0 /\ sleeps = <<>>)

StageRank(stage) ==
  CASE stage = "Fetching" -> 1
    [] stage = "Detecting" -> 2
    [] stage = "Installing" -> 3
    [] stage = "Building" -> 4
    [] stage = "Packaging" -> 5
    [] stage = "Publishing" -> 6
    [] OTHER -> 7

\* C18: the stages are entered in the order Fetching, Detecting, Installing,
\* Building, Packaging, Publishing, and the package manager and the framework are
\* resolved when the install command starts.
C18_StagesInOrder ==
  /\ \A j, k \in 1..Len(stages) : j < k => StageRank(stages[j]) < StageRank(stages[k])
  /\ (InStages("Installing") => InStages("Detecting") /\ framework # "")

\* the directory zipped holds the exported site: out itself, or in the build
\* script the dist that cp -r out dist filled from it
PackagesExport ==
  \/ outDir = "out"
  \/ (mode = "scripts" /\ outDir = "dist")

\* C19: for a next project the directory packaged is out whenever out exists after
\* the build and export commands, so that .next is packaged only when it does not.
C19_NextPackagesExportedFolder ==
  (framework \in {"next", "Next.js"} /\ archive /\ "out" \in dirs) => PackagesExport

\* C20: the source is fetched as a git repository exactly when the URL ends with
\* .git and as an archive exactly when it ends with .zip.
C20_SourceKindBySuffix ==
  sourceKind # "none" =>
    /\ (sourceKind = "git" <=> EndsWith(source_url, ".git"))
    /\ (sourceKind = "zip" <=> EndsWith(source_url, ".zip"))

\* C21: in the workflow the outcome recorded when the notification sequence starts
\* (success with its artifact URL, or failure with its message) is the outcome
\* during the sequence and at the end of the job, whether delivery succeeded or all
\* attempts were exhausted.
C21_OutcomeUnchangedByNotification ==
  (mode = "workflow" /\ payloads # <<>>) =>
    LET p == payloads[Len(payloads)] IN
    /\ (p.status = "success" =>
          /\ archive
          /\ output_url = p.output_url
          /\ errorMessage = ""
          /\ (Terminal => Succeeded))
    /\ (p.status = "failed" =>
          /\ ~archive
          /\ output_url = ""
          /\ errorMessage = p.message
          /\ (Terminal => Failed))

C21_Witness ==
  /\ mode = "workflow"
  /\ Terminal
  /\ delivery = "exhausted"
  /\ payloads # <<>>
  /\ payloads[Len(payloads)].status = "success"
  /\ Succeeded
  /\ output_url = CM_ARTIFACT_URL

\* C22: once an attempt of a notification sequence has succeeded the sequence is
\* over: no further attempt and no further sleep is enabled, and the successful
\* attempt is the last one, every attempt before it having failed and been
\* followed by its sleep.
C22_SuccessEndsSequence ==
  delivery = "delivered" =>
    /\ pc \in {"cb_return", "done"}
    /\ attempts = Len(sleeps) + 1

C22_Witness ==
  /\ delivery = "delivered"
  /\ Terminal
  /\ attempts = 3
  /\ Len(sleeps) = 2

RECURSIVE SumSeq(_)
\* total time slept in a sequence of sleep $DELAY calls
SumSeq(seq) == IF seq = <<>> THEN 0 ELSE seq[1] + SumSeq(Tail(seq))

\* C23: a notification sequence whose 5 attempts all fail has slept after every
\* failed attempt, the last included: 5 sleeps of 2, 4, 8, 16 and 32, 62 in all.
C23_ExhaustedSleepsSixtyTwo ==
  delivery = "exhausted" =>
    /\ attempts = 5
    /\ sleeps = <<2, 4, 8, 16, 32>>
    /\ SumSeq(sleeps) = 62

C23_Witness ==
  /\ delivery = "exhausted"
  /\ Terminal
  /\ attempts = 5
  /\ SumSeq(sleeps) = 62

\* C24: when the acquired root holds one subdirectory together with at least one
\* regular file, nothing is flattened and the project root stays the acquired root.
C24_MixedRootNotFlattened ==
  (layout.dirs = 1 /\ layout.files >= 1) =>
    /\ ~flattened
    /\ (mode = "api" /\ projectDir # "none" => projectDir = "workspace")

====
